---- MODULE Spec2Model ----
(***************************************************************************)
(* Model of bin/match_variants.py: matching of scoring-file variants       *)
(* against target variants under four allele-orientation hypotheses,       *)
(* ambiguity labelling, duplicate splitting and the writing of scorefiles. *)
(*                                                                         *)
(* Tables are sequences of records (one record per row).  An allele is a   *)
(* sequence of one-character strings, so that the character-wise           *)
(* str.replace_all chain of read_target can be computed as the code does.  *)
(* The column '#CHROM' of the target table is called CHROM here.           *)
(***************************************************************************)
EXTENDS Integers, Sequences, FiniteSets, TLC

VARIABLES pc, args, target_file, score_file, target, scorefile, remove,
          matches, unduplicated, pending, files, writes

vars == <<pc, args, target_file, score_file, target, scorefile, remove,
          matches, unduplicated, pending, files, writes>>

(***************************************************************************)
(* Bounds of the model.                                                    *)
(***************************************************************************)
\* allele strings of the complement runs: REF up to MaxLen, ALT up to MaxAltLen
MaxLen == 3
MaxAltLen == 2
\* matching runs: positions, target identifiers, rows per table, rows in all
MaxPos == 2
MaxID == 2
MaxTarget == 2
MaxScore == 2
MaxTotal == 3
\* whole runs of main: rows per table
MaxMainTarget == 2
MaxMainScore == 3
\* duplicate splitting: rows of the match table and identifiers in it
MaxRows == 3
MaxDupID == 2

Nucleotides == {"A", "T", "C", "G"}
\* characters an allele string of a target file may hold: the nucleotides,
\* a placeholder letter of the replace chain and a letter foreign to both
Alphabet == Nucleotides \cup {"V", "N"}
Chroms == {"1", "2"}
EffectTypes == {"additive", "is_dominant"}

\* all sequences over S of length 0..n
RECURSIVE SeqsUpTo(_, _)
SeqsUpTo(S, n) ==
    IF n = 0 THEN {<<>>}
    ELSE LET shorter == SeqsUpTo(S, n - 1)
         IN  shorter \cup {Append(s, x) : s \in {t \in shorter : Len(t) = n - 1}, x \in S}

SeqsFromTo(S, lo, hi) == {s \in SeqsUpTo(S, hi) : Len(s) >= lo}

\* all sequences over S of length n
RECURSIVE SeqsOfLen(_, _)
SeqsOfLen(S, n) ==
    IF n = 0 THEN {<<>>}
    ELSE {Append(s, x) : s \in SeqsOfLen(S, n - 1), x \in S}

Min(S) == CHOOSE x \in S : \A y \in S : x <= y

(***************************************************************************)
(* read_target: the complement of an allele by eight str.replace_all calls *)
(***************************************************************************)
replace_all(s, from, to) == [i \in DOMAIN s |-> IF s[i] = from THEN to ELSE s[i]]

\* the chain without the placeholder letters: a T made from an A is turned back
flip_chain_direct(s) ==
    replace_all(replace_all(replace_all(replace_all(s,
        "A", "T"), "T", "A"), "C", "G"), "G", "C")

flip_chain(s) ==
    replace_all(replace_all(replace_all(replace_all(
    replace_all(replace_all(replace_all(replace_all(s,
        "A", "V"), "T", "X"), "C", "Y"), "G", "Z"),
        "V", "T"), "X", "A"), "Y", "G"), "Z", "C")

read_target_row(x) ==
    [CHROM |-> x.CHROM, ID |-> x.ID, POS |-> x.POS, REF |-> x.REF, ALT |-> x.ALT,
     REF_FLIP |-> flip_chain(x.REF), ALT_FLIP |-> flip_chain(x.ALT)]

read_target(file) == [i \in DOMAIN file |-> read_target_row(file[i])]

\* the casts to Categorical leave every value as it is
read_scorefile(file) == file

(***************************************************************************)
(* match_variants: inner join of scorefile and target on                   *)
(* (chr_name, chr_position, effect_allele, other_allele) =                 *)
(* (CHROM, POS, EA, OA)                                                    *)
(***************************************************************************)
colnames == {"chr_name", "chr_position", "effect_allele", "other_allele",
             "effect_weight", "effect_type", "accession", "ID", "REF", "ALT",
             "REF_FLIP", "ALT_FLIP", "match_type"}

\* the join without other_allele among its keys
join_on_effect_only(s, t, EA, OA) ==
    /\ s.chr_name = t.CHROM
    /\ s.chr_position = t.POS
    /\ s.effect_allele = t[EA]

join_on(s, t, EA, OA) ==
    /\ s.chr_name = t.CHROM
    /\ s.chr_position = t.POS
    /\ s.effect_allele = t[EA]
    /\ s.other_allele = t[OA]

\* the joined row: the left columns, the right columns but its join keys,
\* then EA and OA copied back from the left keys, and the match_type literal
joined_row(s, t, EA, OA, match_type) ==
    LET kept == DOMAIN t \ {"CHROM", "POS", EA, OA}
        wide == [c \in (DOMAIN s) \cup kept \cup {EA, OA, "match_type"} |->
                    IF c = EA THEN s.effect_allele
                    ELSE IF c = OA THEN s.other_allele
                    ELSE IF c = "match_type" THEN match_type
                    ELSE IF c \in DOMAIN s THEN s[c]
                    ELSE t[c]]
    IN  [c \in colnames |-> wide[c]]

RECURSIVE join_right(_, _, _, _, _, _)
join_right(s, tgt, j, EA, OA, match_type) ==
    IF j > Len(tgt) THEN <<>>
    ELSE (IF join_on(s, tgt[j], EA, OA)
          THEN <<joined_row(s, tgt[j], EA, OA, match_type)>>
          ELSE <<>>) \o join_right(s, tgt, j + 1, EA, OA, match_type)

RECURSIVE join_left(_, _, _, _, _, _)
join_left(sf, i, tgt, EA, OA, match_type) ==
    IF i > Len(sf) THEN <<>>
    ELSE join_right(sf[i], tgt, 1, EA, OA, match_type)
         \o join_left(sf, i + 1, tgt, EA, OA, match_type)

match_variants(sf, tgt, EA, OA, match_type) == join_left(sf, 1, tgt, EA, OA, match_type)

(***************************************************************************)
(* label_biallelic_ambiguous and get_all_matches                           *)
(***************************************************************************)
\* the label with the comparison to REF_FLIP alone
is_ambiguous_ref_only(m) == m.effect_allele = m.REF_FLIP

is_ambiguous(m) ==
    (m.effect_allele = m.ALT_FLIP) \/ (m.effect_allele = m.REF_FLIP)

with_ambiguous(m) ==
    [c \in (DOMAIN m) \cup {"ambiguous"} |->
        IF c = "ambiguous" THEN is_ambiguous(m) ELSE m[c]]

label_biallelic_ambiguous(ms, rm) ==
    LET ambiguous == [i \in DOMAIN ms |-> with_ambiguous(ms[i])]
    IN  IF rm THEN SelectSeq(ambiguous, LAMBDA m : m.ambiguous = FALSE)
        ELSE ambiguous

concat_matches(tgt, sf) ==
    match_variants(sf, tgt, "REF", "ALT", "refalt")
    \o match_variants(sf, tgt, "ALT", "REF", "altref")
    \o match_variants(sf, tgt, "REF_FLIP", "ALT_FLIP", "refalt_flip")
    \o match_variants(sf, tgt, "ALT_FLIP", "REF_FLIP", "altref_flip")

get_all_matches(tgt, sf, rm) == label_biallelic_ambiguous(concat_matches(tgt, sf), rm)

(***************************************************************************)
(* unduplicate_variants, split_effect_type, format_scorefile               *)
(***************************************************************************)
\* the mask that leaves the first row of each ID unmarked
is_duplicated_after_first(df, i) == \E j \in 1..(i - 1) : df[j].ID = df[i].ID

is_duplicated(df, i) == \E j \in DOMAIN df : j # i /\ df[j].ID = df[i].ID

RECURSIVE take_rows(_, _, _)
\* the rows of df, in order, whose is_duplicated mask equals want
take_rows(df, i, want) ==
    IF i > Len(df) THEN <<>>
    ELSE (IF is_duplicated(df, i) = want THEN <<df[i]>> ELSE <<>>)
         \o take_rows(df, i + 1, want)

unduplicate_variants(df) ==
    [first |-> take_rows(df, 1, FALSE), dup |-> take_rows(df, 1, TRUE)]

split_effect_type(df) ==
    [x \in {df[i].effect_type : i \in DOMAIN df} |->
        SelectSeq(df, LAMBDA r : r.effect_type = x)]

\* the (ID, effect_allele) index of the pivot, in order of first appearance
RECURSIVE pivot_index(_, _)
pivot_index(df, i) ==
    IF i > Len(df) THEN <<>>
    ELSE (IF \E j \in 1..(i - 1) : df[j].ID = df[i].ID
                                    /\ df[j].effect_allele = df[i].effect_allele
          THEN <<>>
          ELSE <<[ID |-> df[i].ID, effect_allele |-> df[i].effect_allele]>>)
         \o pivot_index(df, i + 1)

\* one row per (ID, effect_allele), one weight column per accession of df,
\* the first weight of each cell, 0 where df has none
pivot(df) ==
    LET idx == pivot_index(df, 1)
        accs == {df[i].accession : i \in DOMAIN df}
        cell(k, a) ==
            LET rows == {j \in DOMAIN df : /\ df[j].ID = k.ID
                                           /\ df[j].effect_allele = k.effect_allele
                                           /\ df[j].accession = a}
            IN  IF rows = {} THEN 0 ELSE df[Min(rows)].effect_weight
    IN  [n \in DOMAIN idx |->
            [ID |-> idx[n].ID, effect_allele |-> idx[n].effect_allele,
             weights |-> [a \in accs |-> cell(idx[n], a)]]]

format_scorefile(df, split) ==
    IF split
    THEN [x \in {df[i].chr_name : i \in DOMAIN df} |->
             pivot(SelectSeq(df, LAMBDA r : r.chr_name = x))]
    ELSE [x \in {"false"} |-> pivot(df)]

(***************************************************************************)
(* write_scorefile                                                         *)
(***************************************************************************)
ea_dict(k) ==
    IF k = "is_dominant" THEN "dominant"
    ELSE IF k = "is_recessive" THEN "recessive"
    ELSE IF k = "additive" THEN "additive"
    ELSE "None"

\* '{chr}_{et}_{dup}.scorefile'
fout(chr, et, dup) == <<chr, et, dup>>

\* the keys of a dict of tables, as the sequence the loop visits
RECURSIVE keys_seq(_)
keys_seq(S) ==
    IF S = {} THEN <<>>
    ELSE LET k == CHOOSE x \in S : TRUE IN <<k>> \o keys_seq(S \ {k})

\* the write_csv calls of one group of write_scorefile, in order; group is
\* the group the table comes from, label the text put in the path
group_writes(effect_type, df, split, group, label) ==
    IF Len(df) > 0
    THEN LET df_dict == format_scorefile(df, split)
             ks == keys_seq(DOMAIN df_dict)
         IN  [n \in DOMAIN ks |->
                 [path |-> fout(ks[n], effect_type, label), et |-> effect_type,
                  group |-> group, chr |-> ks[n], table |-> df_dict[ks[n]]]]
    ELSE <<>>

write_scorefile(effect_type, sf, split) ==
    group_writes(effect_type, sf.first, split, "first", "first")
    \o group_writes(effect_type, sf.dup, split, "dup", "first")

RECURSIVE write_csv_all(_, _, _)
\* the file system after the write_csv calls ws[i..]: a later write to a path
\* replaces the file an earlier one left there
write_csv_all(fs, ws, i) ==
    IF i > Len(ws) THEN fs
    ELSE write_csv_all((ws[i].path :> ws[i].table) @@ fs, ws, i + 1)

(***************************************************************************)
(* Inputs                                                                  *)
(***************************************************************************)
Alleles == {<<b>> : b \in Nucleotides}
AllelePairs == Alleles \X Alleles

\* the rows of a target file (.bim) over the given values
TargetRowsOver(chroms, ids, positions, pairs) ==
    {[CHROM |-> c, ID |-> d, POS |-> p, REF |-> ra[1], ALT |-> ra[2]] :
        c \in chroms, d \in ids, p \in positions, ra \in pairs}

\* the rows of a combined scorefile over the given values; a source is the
\* (effect_type, accession, effect_weight) of a row
ScoreRowsOver(chroms, positions, pairs, sources) ==
    {[chr_name |-> c, chr_position |-> p, effect_allele |-> eo[1],
      other_allele |-> eo[2], effect_weight |-> src[3], effect_type |-> src[1],
      accession |-> src[2]] :
        c \in chroms, p \in positions, eo \in pairs, src \in sources}

\* tables of n >= 1 rows, the first row from First and the others from Rest
TablesOver(First, Rest, n) == {<<f>> \o r : f \in First, r \in SeqsOfLen(Rest, n - 1)}

Idle ==
    /\ target = <<>>
    /\ scorefile = <<>>
    /\ remove = TRUE
    /\ matches = <<>>
    /\ unduplicated = <<>>
    /\ pending = {}
    /\ files = <<>>
    /\ writes = <<>>

(***************************************************************************)
(* main, step by step                                                      *)
(***************************************************************************)
ReadTarget ==
    /\ pc = "start"
    /\ target' = read_target(target_file)
    /\ pc' = "target_read"
    /\ UNCHANGED <<args, target_file, score_file, scorefile, remove, matches,
                   unduplicated, pending, files, writes>>

ReadScorefile ==
    /\ pc = "target_read"
    /\ scorefile' = read_scorefile(score_file)
    /\ pc' = "inputs_read"
    /\ UNCHANGED <<args, target_file, score_file, target, remove, matches,
                   unduplicated, pending, files, writes>>

GetAllMatches(rm) ==
    /\ pc = "inputs_read"
    /\ remove' = rm
    /\ matches' = get_all_matches(target, scorefile, rm)
    /\ pc' = "matched"
    /\ UNCHANGED <<args, target_file, score_file, target, scorefile,
                   unduplicated, pending, files, writes>>

\* the run with the assertion not evaluated
AssertMatches_skipped ==
    /\ pc = "matched"
    /\ pc' = "checked"
    /\ UNCHANGED <<args, target_file, score_file, target, scorefile, remove,
                   matches, unduplicated, pending, files, writes>>

\* assert matches.shape[0] > 0, empty_err
AssertMatches ==
    /\ pc = "matched"
    /\ pc' = IF Len(matches) > 0 THEN "checked" ELSE "failed"
    /\ UNCHANGED <<args, target_file, score_file, target, scorefile, remove,
                   matches, unduplicated, pending, files, writes>>

\* ets = split_effect_type(matches); unduplicated = {k: unduplicate_variants(v)}
Unduplicate ==
    /\ pc = "checked"
    /\ LET ets == split_effect_type(matches)
       IN  /\ unduplicated' = [k \in DOMAIN ets |-> unduplicate_variants(ets[k])]
           /\ pending' = DOMAIN ets
    /\ pc' = "prepared"
    /\ UNCHANGED <<args, target_file, score_file, target, scorefile, remove,
                   matches, files, writes>>

\* one write_scorefile(ea_dict.get(k), v, args.split) of the closing loop
WriteScorefile ==
    /\ pc = "prepared"
    /\ pending # {}
    /\ \E k \in pending :
          LET ws == write_scorefile(ea_dict(k), unduplicated[k], args.split)
          IN  /\ files' = write_csv_all(files, ws, 1)
              /\ writes' = writes \o ws
              /\ pending' = pending \ {k}
    /\ UNCHANGED <<pc, args, target_file, score_file, target, scorefile,
                   remove, matches, unduplicated>>

Exit ==
    /\ pc = "prepared"
    /\ pending = {}
    /\ pc' = "done"
    /\ UNCHANGED <<args, target_file, score_file, target, scorefile, remove,
                   matches, unduplicated, pending, files, writes>>

(***************************************************************************)
(* Spec: one run of main.  The first target row is at chromosome 1,        *)
(* position 1, with identifier 1; the other rows have identifier 2 and lie *)
(* there or on chromosome 2.                                               *)
(***************************************************************************)
\* min_overlap, in percent
MinOverlaps == {50, 100}

\* target alleles: an ordinary pair and a self-complementary pair
MainTargetPairs == {<<<<"A">>, <<"G">>>>, <<<<"A">>, <<"T">>>>}
\* score alleles: those, and the ordinary pair swapped
MainScorePairs == MainTargetPairs \cup {<<<<"G">>, <<"A">>>>}
\* two accessions of one effect type, and one of another
MainSources == {<<"additive", "PGS1", 1>>, <<"additive", "PGS2", 2>>,
                <<"is_dominant", "PGS1", 1>>}

Init ==
    /\ pc = "start"
    /\ args \in [split : BOOLEAN, min_overlap : MinOverlaps]
    /\ \E nT \in 1..MaxMainTarget, nS \in 1..MaxMainScore :
          /\ target_file \in TablesOver(TargetRowsOver({"1"}, {1}, {1}, MainTargetPairs),
                                         TargetRowsOver(Chroms, {2}, {1}, MainTargetPairs),
                                         nT)
          /\ score_file \in SeqsOfLen(ScoreRowsOver(Chroms, {1}, MainScorePairs,
                                                     MainSources), nS)
    /\ Idle

Next ==
    \/ ReadTarget
    \/ ReadScorefile
    \/ GetAllMatches(TRUE)
    \/ AssertMatches
    \/ Unduplicate
    \/ WriteScorefile
    \/ Exit

Spec == Init /\ [][Next]_vars

(***************************************************************************)
(* SpecMatch: get_all_matches on tables read from files, with either value *)
(* of remove.  The first target row is at chromosome 1, position 1, with   *)
(* identifier 1.                                                           *)
(***************************************************************************)
MatchSources == {<<"additive", "PGS1", 1>>, <<"is_dominant", "PGS2", 2>>}

InitMatch ==
    /\ pc = "start"
    /\ args \in [split : {FALSE}, min_overlap : {100}]
    /\ \E nT \in 1..MaxTarget, nS \in 1..MaxScore :
          /\ nT + nS <= MaxTotal
          /\ target_file \in TablesOver(TargetRowsOver({"1"}, {1}, {1}, AllelePairs),
                                         TargetRowsOver(Chroms, 1..MaxID, 1..MaxPos,
                                                        AllelePairs), nT)
          /\ score_file \in SeqsOfLen(ScoreRowsOver(Chroms, 1..MaxPos, AllelePairs,
                                                     MatchSources), nS)
    /\ Idle

NextMatch ==
    \/ ReadTarget
    \/ ReadScorefile
    \/ \E rm \in BOOLEAN : GetAllMatches(rm)

SpecMatch == InitMatch /\ [][NextMatch]_vars

(***************************************************************************)
(* SpecFlip: read_target on a one-row target file with any allele strings  *)
(***************************************************************************)
AlleleStrings(n) == SeqsFromTo(Alphabet, 1, n)

InitFlip ==
    /\ pc = "start"
    /\ args \in [split : {FALSE}, min_overlap : {100}]
    /\ \E r \in AlleleStrings(MaxLen), a \in AlleleStrings(MaxAltLen) :
          target_file = <<[CHROM |-> "1", ID |-> 1, POS |-> 1, REF |-> r, ALT |-> a]>>
    /\ score_file = <<>>
    /\ Idle

NextFlip == ReadTarget

SpecFlip == InitFlip /\ [][NextFlip]_vars

(***************************************************************************)
(* SpecDup: lines 197-198 of main on any bounded match table               *)
(***************************************************************************)
MatchRow(id, ea, et, acc) ==
    [chr_name |-> "1", chr_position |-> 1, effect_allele |-> ea,
     other_allele |-> <<"T">>, effect_weight |-> 1, effect_type |-> et,
     accession |-> acc, ID |-> id, REF |-> <<"A">>, ALT |-> <<"C">>,
     REF_FLIP |-> <<"T">>, ALT_FLIP |-> <<"G">>, match_type |-> "refalt",
     ambiguous |-> FALSE]

DupRows ==
    {MatchRow(id, ea, et, acc) : id \in 1..MaxDupID, ea \in {<<"A">>, <<"C">>},
                                 et \in EffectTypes, acc \in {"PGS1"}}

InitDup ==
    /\ pc = "checked"
    /\ args \in [split : {FALSE}, min_overlap : {100}]
    /\ target_file = <<>>
    /\ score_file = <<>>
    /\ target = <<>>
    /\ scorefile = <<>>
    /\ remove = TRUE
    /\ matches \in SeqsFromTo(DupRows, 1, MaxRows)
    /\ unduplicated = <<>>
    /\ pending = {}
    /\ files = <<>>
    /\ writes = <<>>

NextDup == Unduplicate

SpecDup == InitDup /\ [][NextDup]_vars

(***************************************************************************)
(* Vocabulary of the properties                                            *)
(***************************************************************************)
IsValidAllele(x) == \A i \in DOMAIN x : x[i] \in Nucleotides

complement(c) ==
    CASE c = "A" -> "T" [] c = "T" -> "A" [] c = "C" -> "G" [] c = "G" -> "C"

\* x is valid and y is its position-by-position complement
IsComplementOf(y, x) ==
    /\ Len(y) = Len(x)
    /\ \A i \in DOMAIN x : y[i] = complement(x[i])

MatchTypes == {"refalt", "altref", "refalt_flip", "altref_flip"}

\* the allele pair of target row t that hypothesis h designates
HypothesisPair(t, h) ==
    CASE h = "refalt" -> <<t.REF, t.ALT>>
      [] h = "altref" -> <<t.ALT, t.REF>>
      [] h = "refalt_flip" -> <<t.REF_FLIP, t.ALT_FLIP>>
      [] h = "altref_flip" -> <<t.ALT_FLIP, t.REF_FLIP>>

HypothesisHolds(s, t, h) ==
    /\ s.chr_name = t.CHROM
    /\ s.chr_position = t.POS
    /\ <<s.effect_allele, s.other_allele>> = HypothesisPair(t, h)

\* the MatchRecord of score entry s and target row t under hypothesis h
MatchRecordOf(s, t, h) ==
    [chr_name |-> s.chr_name, chr_position |-> s.chr_position,
     effect_allele |-> s.effect_allele, other_allele |-> s.other_allele,
     effect_weight |-> s.effect_weight, effect_type |-> s.effect_type,
     accession |-> s.accession, ID |-> t.ID, REF |-> t.REF, ALT |-> t.ALT,
     REF_FLIP |-> t.REF_FLIP, ALT_FLIP |-> t.ALT_FLIP, match_type |-> h]

WithoutFlag(m) == [c \in DOMAIN m \ {"ambiguous"} |-> m[c]]

Copies(tbl, row) == Cardinality({i \in DOMAIN tbl : tbl[i] = row})

\* the records of ms that join s and t under h
RecordsOf(ms, s, t, h) ==
    {k \in DOMAIN ms : WithoutFlag(ms[k]) = MatchRecordOf(s, t, h)}

SelfComplementary(t) == t.REF_FLIP = t.ALT /\ t.ALT_FLIP = t.REF

Labelled == pc = "matched" /\ remove = FALSE

(***************************************************************************)
(* C10 (SpecFlip): for an allele string over {A, T, C, G} the replace      *)
(* chain of read_target gives a string of the same length that is the      *)
(* position-by-position complement, in the same order, and the chain       *)
(* applied to that result gives the allele back, for REF and for ALT.      *)
(***************************************************************************)
C10_FlipIsComplement ==
    pc = "target_read" =>
        \A i \in DOMAIN target :
            /\ IsValidAllele(target_file[i].REF) =>
                  /\ IsComplementOf(target[i].REF_FLIP, target_file[i].REF)
                  /\ flip_chain(target[i].REF_FLIP) = target[i].REF
            /\ IsValidAllele(target_file[i].ALT) =>
                  /\ IsComplementOf(target[i].ALT_FLIP, target_file[i].ALT)
                  /\ flip_chain(target[i].ALT_FLIP) = target[i].ALT

C10_Witness ==
    /\ pc = "target_read"
    /\ target_file[1].REF = <<"A", "C", "T">>
    /\ target[1].REF_FLIP = <<"T", "G", "A">>
    /\ target[1].ALT = <<"G", "A">>
    /\ target[1].ALT_FLIP = <<"C", "T">>

(***************************************************************************)
(* C8 (SpecFlip): read_target completes only on target files whose REF and *)
(* ALT strings hold nothing but A, T, C, G; on any other character it      *)
(* fails and no REF_FLIP / ALT_FLIP value is produced.                     *)
(***************************************************************************)
C8_InvalidAlleleRejected ==
    pc = "target_read" =>
        \A i \in DOMAIN target_file :
            IsValidAllele(target_file[i].REF) /\ IsValidAllele(target_file[i].ALT)

(***************************************************************************)
(* C1 (SpecMatch): in the result of get_all_matches with remove = False a  *)
(* record is flagged ambiguous if and only if its effect_allele equals a   *)
(* non-flipped allele (REF or ALT) and also a flipped allele (REF_FLIP or  *)
(* ALT_FLIP) of its target row.                                            *)
(***************************************************************************)
C1_AmbiguousIffSelfComplementary ==
    Labelled =>
        \A k \in DOMAIN matches :
            LET m == matches[k]
            IN  m.ambiguous <=> (/\ m.effect_allele \in {m.REF, m.ALT}
                                 /\ m.effect_allele \in {m.REF_FLIP, m.ALT_FLIP})

(***************************************************************************)
(* C2 (SpecMatch): the records of the four joins, before labelling, hold   *)
(* one record tagged h per pair of a score entry s and a target row t that *)
(* agree on chromosome, position and the allele pair h designates, and no  *)
(* other record; each record carries the fields of s and t unchanged.      *)
(* Equal rows of a table count once each, and a record names its target    *)
(* row by the columns it keeps, so the records are counted per agreeing    *)
(* pair and in total.                                                      *)
(***************************************************************************)
C2_OneRecordPerSatisfiedHypothesis ==
    Labelled =>
        /\ \A i \in DOMAIN scorefile, j \in DOMAIN target, h \in MatchTypes :
              HypothesisHolds(scorefile[i], target[j], h) =>
                  Cardinality(RecordsOf(matches, scorefile[i], target[j], h))
                      = Copies(scorefile, scorefile[i]) * Copies(target, target[j])
        /\ Len(matches) = Cardinality({x \in (DOMAIN scorefile) \X (DOMAIN target) \X MatchTypes :
                                          HypothesisHolds(scorefile[x[1]], target[x[2]], x[3])})
        /\ \A k \in DOMAIN matches :
              \E i \in DOMAIN scorefile, j \in DOMAIN target, h \in MatchTypes :
                  /\ HypothesisHolds(scorefile[i], target[j], h)
                  /\ k \in RecordsOf(matches, scorefile[i], target[j], h)

\* two score entries match one target row, one of them under two hypotheses
C2_Witness ==
    /\ Labelled
    /\ Len(scorefile) = 2
    /\ scorefile[1].effect_weight # scorefile[2].effect_weight
    /\ Cardinality(RecordsOf(matches, scorefile[1], target[1], "altref")) = 1
    /\ Cardinality(RecordsOf(matches, scorefile[2], target[1], "refalt_flip")) = 1
    /\ Cardinality(RecordsOf(matches, scorefile[2], target[1], "altref")) = 0
    /\ Len(matches) = 2

(***************************************************************************)
(* C7 (SpecMatch), as amended: for a target row with a self-complementary  *)
(* allele pair and a score entry at its chromosome and position with       *)
(* effect_allele = REF and other_allele = ALT, get_all_matches with        *)
(* remove = False returns two records for the pair, of match_type refalt   *)
(* and altref_flip, both ambiguous; with remove = True it returns none.    *)
(***************************************************************************)
C7Case(s, t) ==
    /\ SelfComplementary(t)
    /\ s.chr_name = t.CHROM
    /\ s.chr_position = t.POS
    /\ s.effect_allele = t.REF
    /\ s.other_allele = t.ALT

\* the records of the pair under the two hypotheses hs, and none under another
C7Records(s, t, hs) ==
    LET n == Copies(scorefile, s) * Copies(target, t)
    IN  \A h \in MatchTypes :
            /\ Cardinality(RecordsOf(matches, s, t, h))
                  = IF remove THEN 0 ELSE IF h \in hs THEN n ELSE 0
            /\ \A k \in RecordsOf(matches, s, t, h) : matches[k].ambiguous = TRUE

C7_RefaltAndAltrefFlip ==
    pc = "matched" =>
        \A i \in DOMAIN scorefile, j \in DOMAIN target :
            C7Case(scorefile[i], target[j]) =>
                C7Records(scorefile[i], target[j], {"refalt", "altref_flip"})

C7_Witness ==
    /\ Labelled
    /\ Len(matches) = 2
    /\ C7Case(scorefile[1], target[1])
    /\ target[1].REF = <<"A">>
    /\ target[1].ALT = <<"T">>
    /\ matches[1].match_type = "refalt"
    /\ matches[2].match_type = "altref_flip"
    /\ matches[1].ambiguous /\ matches[2].ambiguous

\* C7 as first stated: the two records are of match_type refalt and refalt_flip
C7_RefaltAndRefaltFlip ==
    pc = "matched" =>
        \A i \in DOMAIN scorefile, j \in DOMAIN target :
            C7Case(scorefile[i], target[j]) =>
                C7Records(scorefile[i], target[j], {"refalt", "refalt_flip"})

(***************************************************************************)
(* C5 (SpecDup): unduplicate_variants splits the rows of each effect-type  *)
(* partition df into 'first' and 'dup': every row of df is in exactly one  *)
(* of them, unaltered; an ID in 'dup' occurs at least twice in df and all  *)
(* its rows are in 'dup'; an ID in 'first' occurs exactly once in df.      *)
(***************************************************************************)
RowsWithID(tbl, id) == {i \in DOMAIN tbl : tbl[i].ID = id}
PartitionRows(k) == {i \in DOMAIN matches : matches[i].effect_type = k}
RowValues(tbl) == {tbl[i] : i \in DOMAIN tbl}

C5_StrictPartition ==
    pc = "prepared" =>
        \A k \in DOMAIN unduplicated :
            LET u == unduplicated[k]
                inDf(r) == Cardinality({i \in PartitionRows(k) : matches[i] = r})
                idInDf(id) == Cardinality({i \in PartitionRows(k) : matches[i].ID = id})
            IN  /\ \A r \in RowValues(matches) \cup RowValues(u.first) \cup RowValues(u.dup) :
                      /\ Copies(u.first, r) + Copies(u.dup, r) = inDf(r)
                      /\ Copies(u.first, r) = 0 \/ Copies(u.dup, r) = 0
                /\ \A i \in DOMAIN u.dup :
                      /\ idInDf(u.dup[i].ID) >= 2
                      /\ Cardinality(RowsWithID(u.dup, u.dup[i].ID)) = idInDf(u.dup[i].ID)
                /\ \A i \in DOMAIN u.first : idInDf(u.first[i].ID) = 1

C5_Witness ==
    /\ pc = "prepared"
    /\ \E k \in DOMAIN unduplicated :
          /\ Len(unduplicated[k].first) = 1
          /\ Len(unduplicated[k].dup) = 2
          /\ unduplicated[k].dup[1].ID = unduplicated[k].dup[2].ID
          /\ unduplicated[k].first[1].ID # unduplicated[k].dup[1].ID

(***************************************************************************)
(* C6 (Spec): when the match set of get_all_matches(remove = True) is      *)
(* empty the run ends in the fatal error, and no file is written before or *)
(* after: every write follows a passed check of a non-empty match set.     *)
(***************************************************************************)
C6_NoWriteOnEmptyMatches ==
    /\ (pc \in {"failed", "checked", "prepared", "done"} /\ Len(matches) = 0)
          => pc = "failed"
    /\ pc = "failed" => (Len(writes) = 0 /\ DOMAIN files = {})
    /\ (Len(writes) > 0 \/ DOMAIN files # {})
          => (pc \in {"prepared", "done"} /\ Len(matches) > 0)

\* the joins found records and the removal of the ambiguous ones left none
C6_Witness ==
    /\ pc = "failed"
    /\ Len(concat_matches(target, scorefile)) > 0
    /\ Len(matches) = 0
    /\ Len(writes) = 0

(***************************************************************************)
(* C3 (Spec): files are written only when the share of the distinct        *)
(* scorefile variants that have a match is at least min_overlap.           *)
(***************************************************************************)
VariantOf(r) == <<r.chr_name, r.chr_position, r.effect_allele, r.other_allele>>
ScoreVariants == {VariantOf(scorefile[i]) : i \in DOMAIN scorefile}
MatchedVariants == {VariantOf(matches[k]) : k \in DOMAIN matches}

C3_MinOverlapEnforced ==
    Len(writes) > 0 =>
        100 * Cardinality(MatchedVariants) >= args.min_overlap * Cardinality(ScoreVariants)

(***************************************************************************)
(* C4 (Spec): no two writes of a run go to the same path, and when the run *)
(* is done the table of every written group is in the file at its path.    *)
(***************************************************************************)
C4_DistinctOutputPaths ==
    /\ \A i, j \in DOMAIN writes : i # j => writes[i].path # writes[j].path
    /\ pc = "done" =>
          \A i \in DOMAIN writes : files[writes[i].path] = writes[i].table

(***************************************************************************)
(* C9 (Spec): after get_all_matches with remove = True, two records with   *)
(* the same ID and effect_type differ in effect_allele from some record of *)
(* that ID, and every ID routed to 'dup' in an effect-type partition has   *)
(* records there with different effect alleles.                            *)
(***************************************************************************)
C9_DuplicatesDifferInEffectAllele ==
    pc \in {"prepared", "done"} =>
        /\ \A a, b \in DOMAIN matches :
              (a # b /\ matches[a].ID = matches[b].ID
                     /\ matches[a].effect_type = matches[b].effect_type)
                  => \E c, d \in RowsWithID(matches, matches[a].ID) :
                        matches[c].effect_allele # matches[d].effect_allele
        /\ \A k \in DOMAIN unduplicated :
              LET dup == unduplicated[k].dup
              IN  \A i \in DOMAIN dup :
                      \E c, d \in RowsWithID(dup, dup[i].ID) :
                          dup[c].effect_allele # dup[d].effect_allele
====
